---------------------------- MODULE Spec2Model ----------------------------
(***************************************************************************)
(* Model of the capture core of the analog VU meter: the session           *)
(* controller (AudioCapture::start/stop/switchDevice/setReferenceDbfs),    *)
(* the PulseAudio and CoreAudio backend sessions with their callbacks,     *)
(* the level extractor and the VUBallistics engine.                        *)
(*                                                                         *)
(* Number representation.  The code computes in IEEE float; the model      *)
(* computes in fixed point and keeps NaN as a value of its own:            *)
(*   levels (VU, dBFS)   in 1/1000 dB            (-22.0f  is -22000)       *)
(*   sample amplitudes   in 1/10000 of full scale (1.0f   is  10000)       *)
(*   powers (squares)    in 1e-8                                           *)
(*   filter coefficients in 1/1000               (alpha 0.607 is 607)      *)
(*   times               in microseconds         (0.050f  is  50000)       *)
(* Float infinities and rounding to 24 bits are not modelled; every        *)
(* comparison and arithmetic operation treats NaN as IEEE does.            *)
(***************************************************************************)
EXTENDS Integers, Sequences, FiniteSets, TLC

(***************************************************************************)
(* Bounds of the model.                                                    *)
(***************************************************************************)
\* start() attempts that create a mainloop / an audio queue, over a run
MaxSessions == 2
\* audio buffers processed by the level extractor, over a run
MaxBuffers == 2

(***************************************************************************)
(* Program constants.                                                      *)
(***************************************************************************)
kMinVu == -22000
kMaxVu == 3000
attackTau == 80000
releaseTau == 320000
peakAttackTau == 10000
peakReleaseTau == 200000
overshootMix == 70
kMinDt == 1
preEmphasis == 150
wakeThreshold == 20
vuTau == 20000
kMaxDt == 50000
noiseFloor == 10
activityThreshold == 20
micRefDbfs == 0
outputRefDbfs == -14000
defaultReferenceDbfs == -18000
kNumBuffers == 3

(***************************************************************************)
(* IEEE float behaviour the code relies on.                                *)
(***************************************************************************)
NaN == -(2^30)

IsNaN(x) == x = NaN

\* a < b on floats: false as soon as one side is NaN
FLt(a, b) == ~IsNaN(a) /\ ~IsNaN(b) /\ a < b

FGt(a, b) == FLt(b, a)

FAdd(a, b) == IF IsNaN(a) \/ IsNaN(b) THEN NaN ELSE a + b

FSub(a, b) == IF IsNaN(a) \/ IsNaN(b) THEN NaN ELSE a - b

FMul(a, b) == IF IsNaN(a) \/ IsNaN(b) THEN NaN ELSE a * b

\* x / n for a count n > 0
FDivN(x, n) == IF IsNaN(x) THEN NaN ELSE x \div n

\* c * x for a coefficient c in 1/1000
FScale(c, x) == IF IsNaN(x) THEN NaN ELSE (c * x) \div 1000

\* std::max(a, b) == (a < b) ? b : a
std_max(a, b) == IF FLt(a, b) THEN b ELSE a

\* std::min(a, b) == (b < a) ? b : a
std_min(a, b) == IF FLt(b, a) THEN b ELSE a

\* std::clamp(v, lo, hi) == (v < lo) ? lo : (hi < v) ? hi : v
std_clamp(v, lo, hi) == IF FLt(v, lo) THEN lo ELSE IF FLt(hi, v) THEN hi ELSE v

RECURSIVE SqrtSearch(_, _, _)
SqrtSearch(n, lo, hi) ==
    IF lo >= hi THEN lo
    ELSE LET mid == (lo + hi + 1) \div 2
         IN IF mid * mid <= n THEN SqrtSearch(n, mid, hi)
                              ELSE SqrtSearch(n, lo, mid - 1)

\* std::sqrt of a power (1e-8) as an amplitude (1e-4)
std_sqrt(n) == IF IsNaN(n) THEN NaN ELSE SqrtSearch(n, 0, 32767)

\* std::exp(-dt / tau) in 1/1000, for the time constants of the code (tau in
\* microseconds) and dt a multiple of 10 ms up to the 50 ms the caller clamps to
ExpTable ==
    [tau \in {peakAttackTau, vuTau, attackTau, peakReleaseTau, releaseTau} |->
        CASE tau = peakAttackTau  -> <<368, 135, 50, 18, 7>>
          [] tau = vuTau          -> <<607, 368, 223, 135, 82>>
          [] tau = attackTau      -> <<882, 779, 687, 607, 535>>
          [] tau = peakReleaseTau -> <<951, 905, 861, 819, 779>>
          [] tau = releaseTau     -> <<969, 939, 911, 882, 855>>]

ExpNeg(dt, tau) ==
    LET i == dt \div 10000
    IN IF i <= 0 THEN 1000 ELSE ExpTable[tau][IF i > 5 THEN 5 ELSE i]

\* a * y + (1 - a) * x, a in 1/1000, rounded down once
Mix(a, y, x) ==
    IF IsNaN(y) \/ IsNaN(x) THEN NaN
    ELSE a * (y \div 1000) + (1000 - a) * (x \div 1000)
         + (a * (y % 1000) + (1000 - a) * (x % 1000)) \div 1000

RECURSIVE FloorLog2(_)
FloorLog2(v) == IF v < 2 THEN 0 ELSE 1 + FloorLog2(v \div 2)

\* the fraction of log2 of a mantissa m in [2^14, 2^15), bits binary digits, in 1/2^bits
RECURSIVE Log2Frac(_, _)
Log2Frac(m, bits) ==
    IF bits = 0 THEN 0
    ELSE LET sq == (m * m) \div 16384
         IN IF sq >= 32768
            THEN 2 ^ (bits - 1) + Log2Frac(sq \div 2, bits - 1)
            ELSE Log2Frac(sq, bits - 1)

\* 20 * log10(v / 10000) in 1/1000 dB for an amplitude v >= 1
Db20(v) ==
    LET e == FloorLog2(v)
        l2 == e * 1024 + Log2Frac(v * 2 ^ (14 - e), 10)
    IN (60206 * l2) \div 10240 - 80000

\* 20.0f * std::log10(std::max(v, eps)): eps = 1e-12f is below one amplitude unit,
\* so the maximum is eps exactly when v is 0, and 20 * log10(1e-12) = -240 dB
dbfsOf(v) ==
    LET m == std_max(v, 0)
    IN IF IsNaN(m) THEN NaN ELSE IF m = 0 THEN -240000 ELSE Db20(m)

(***************************************************************************)
(* VUBallistics (VUBallistics.cpp).  An instance is [value_, peak_].       *)
(***************************************************************************)
VUBallistics(initialDb) == [value_ |-> initialDb, peak_ |-> initialDb]

reset(valueDb) == [value_ |-> valueDb, peak_ |-> valueDb]

\* a filter that uses the attack time constant whatever tau is passed
onePoleAttackOnly(y, x, dt, tau) == Mix(ExpNeg(dt, attackTau), y, x)

onePole(y, x, dt, tau) ==
    IF tau <= 0 THEN x ELSE Mix(ExpNeg(dt, tau), y, x)

\* ((rand() % 40) / 20000.0f) - 0.001f dB, in 1/1000 dB rounded down
jitterOf(r) == (r % 40) \div 20 - 1

\* VUBallistics::process on instance b with rand() returning r:
\* the instance afterwards and the value returned
process(b, targetDb, dtSeconds, r) ==
    LET dt      == std_max(kMinDt, dtSeconds)
        tau     == IF FGt(targetDb, b.value_) THEN attackTau ELSE releaseTau
        value   == onePole(b.value_, targetDb, dt, tau)
        peakTau == IF FGt(targetDb, b.peak_) THEN peakAttackTau ELSE peakReleaseTau
        peak    == onePole(b.peak_, targetDb, dt, peakTau)
        out     == FAdd(value, FScale(overshootMix, FSub(peak, value)))
    IN [b |-> [value_ |-> value, peak_ |-> peak], out |-> FAdd(out, jitterOf(r))]

(***************************************************************************)
(* The level extractor: the body of stream_read_callback after its early   *)
(* returns (AudioCapture_linux.cpp) and of processAudioBuffer              *)
(* (AudioCapture_macos.cpp), which are the same computation.  The filter   *)
(* state f is [prevL, prevR, rmsL_smooth, rmsR_smooth, meterAwake]: static *)
(* locals of the function on PulseAudio, members on CoreAudio.             *)
(***************************************************************************)
FreshFilter ==
    [prevL |-> 0, prevR |-> 0, rmsL_smooth |-> 0, rmsR_smooth |-> 0,
     meterAwake |-> FALSE]

\* the loop over the frames of an interleaved buffer, from frame i on
RECURSIVE sumSquares(_, _, _, _, _)
sumSquares(data, channels, frames, i, acc) ==
    IF i >= frames THEN acc
    ELSE LET rawL == data[i * channels + 1]
             rawR == IF channels > 1 THEN data[i * channels + 2] ELSE rawL
             l    == FAdd(rawL, FScale(preEmphasis, FSub(rawL, acc.prevL)))
             r    == FAdd(rawR, FScale(preEmphasis, FSub(rawR, acc.prevR)))
         IN sumSquares(data, channels, frames, i + 1,
                       [prevL |-> rawL, prevR |-> rawR,
                        sumL |-> FAdd(acc.sumL, FMul(l, l)),
                        sumR |-> FAdd(acc.sumR, FMul(r, r))])

\* referenceDbfsOverride ? referenceDbfs : deviceType == 1 ? -0.0f : -14.0f
effectiveRefDbfs(opts) ==
    IF opts.referenceDbfsOverride THEN opts.referenceDbfs
    ELSE IF opts.deviceType = 1 THEN micRefDbfs ELSE outputRefDbfs

\* a wake-up that leaves the ballistics where they are
wakeWithoutReset(b, wakes, targetDb) == b

\* if (!meterAwake && (...)) { ballistics.reset(targetVu); }: the instance
\* that process is called on
wakeReset(b, wakes, targetDb) == IF wakes THEN reset(targetDb) ELSE b

\* one buffer of frames > 0 frames: the filter state and both ballistics
\* instances afterwards, the target levels and the clamped levels to publish
levelExtractor(f, bL, bR, opts, data, channels, frames, rate, randL, randR) ==
    LET s      == sumSquares(data, channels, frames, 0,
                             [prevL |-> f.prevL, prevR |-> f.prevR,
                              sumL |-> 0, sumR |-> 0])
        rmsL   == std_sqrt(FDivN(s.sumL, frames))
        rmsR   == std_sqrt(FDivN(s.sumR, frames))
        wokenL == IF FGt(rmsL, wakeThreshold) THEN FMul(rmsL, rmsL) ELSE f.rmsL_smooth
        wokenR == IF FGt(rmsR, wakeThreshold) THEN FMul(rmsR, rmsR) ELSE f.rmsR_smooth
        dt     == std_min((frames * 1000000) \div rate, kMaxDt)
        alpha  == ExpNeg(dt, vuTau)
        smL    == Mix(alpha, wokenL, FMul(rmsL, rmsL))
        smR    == Mix(alpha, wokenR, FMul(rmsR, rmsR))
        rawVuL == std_sqrt(smL)
        rawVuR == std_sqrt(smR)
        rmsL_vu == IF FLt(rawVuL, noiseFloor) THEN 0 ELSE rawVuL
        rmsR_vu == IF FLt(rawVuR, noiseFloor) THEN 0 ELSE rawVuR
        ref    == effectiveRefDbfs(opts)
        targetVuL == FSub(dbfsOf(rmsL_vu), ref)
        targetVuR == FSub(dbfsOf(rmsR_vu), ref)
        wakes  == ~f.meterAwake
                  /\ (FGt(rmsL_vu, activityThreshold) \/ FGt(rmsR_vu, activityThreshold))
        pL     == process(wakeReset(bL, wakes, targetVuL), targetVuL, dt, randL)
        pR     == process(wakeReset(bR, wakes, targetVuR), targetVuR, dt, randR)
    IN [f |-> [prevL |-> s.prevL, prevR |-> s.prevR,
               rmsL_smooth |-> smL, rmsR_smooth |-> smR,
               meterAwake |-> (f.meterAwake \/ wakes)],
        bL |-> pL.b, bR |-> pR.b,
        targetVuL |-> targetVuL, targetVuR |-> targetVuR, ref |-> ref,
        vuL |-> std_clamp(pL.out, kMinVu, kMaxVu),
        vuR |-> std_clamp(pR.out, kMinVu, kMaxVu)]

(***************************************************************************)
(* The audio server of the model and the inputs drawn from it.             *)
(***************************************************************************)
\* sinks and sources in the order the server lists them
SinkList == <<"A", "B">>
SourceList == <<"M">>

Range(seq) == {seq[i] : i \in DOMAIN seq}

\* channels and rate of a device's sample spec (si->sample_spec)
SampleSpec(dev) ==
    [channels |-> IF dev \in {"B", "M"} THEN 1 ELSE 2,
     rate     |-> IF dev = "B" THEN 20 ELSE 100]

\* device names a caller passes to switchDevice; "X" names no device
UIDs == {"A", "X"}

\* values a caller passes to setReferenceDbfs
RefValues == {6000}

\* interleaved float buffers a stream delivers (pa_stream_peek, mAudioData)
Buffers == {<<>>, <<10000, 0>>, <<NaN, 0>>}

\* values the two calls of rand() inside VUBallistics::process return for one
\* buffer, the left channel's first
RandValues == {<<0, 39>>, <<39, 0>>}

\* the Options main() builds: no argument at all, or
\* --device-type 1 --device-name M --ref-dbfs -20
CommandLines ==
    {[referenceDbfs |-> defaultReferenceDbfs, referenceDbfsOverride |-> FALSE,
      sampleRate |-> 100, deviceName |-> "", deviceType |-> 0],
     [referenceDbfs |-> -20000, referenceDbfsOverride |-> TRUE,
      sampleRate |-> 100, deviceName |-> "M", deviceType |-> 1]}

EmptyMap == [i \in {} |-> 0]

Put(f, k, v) == [i \in DOMAIN f \cup {k} |-> IF i = k THEN v ELSE f[i]]

Drop(f, k) == [i \in DOMAIN f \ {k} |-> f[i]]

(***************************************************************************)
(* State.                                                                  *)
(***************************************************************************)
VARIABLES
    platform,           \* "pulse" or "coreaudio": which AudioCapture_*.cpp is built
    options_,           \* AudioCapture::options_
    currentDeviceUID_,  \* AudioCapture::currentDeviceUID_
    leftVuDb_,          \* std::atomic<float> leftVuDb_
    rightVuDb_,         \* std::atomic<float> rightVuDb_
    running_,           \* std::atomic<bool> running_
    thread_,            \* std::thread thread_: "none", or "running" (joinable)
    mainloop_,          \* pa_mainloop* (0 is nullptr)
    context_,           \* pa_context*
    stream_,            \* pa_stream*
    audioQueue_,        \* AudioQueueRef
    buffers_,           \* AudioQueueBuffer* buffers_[kNumBuffers]
    ballisticsL_,       \* VUBallistics ballisticsL_
    ballisticsR_,       \* VUBallistics ballisticsR_
    filter,             \* prevL, prevR, rmsL_smooth, rmsR_smooth, meterAwake
    paMainloops,        \* the pa_mainloop objects not yet freed
    paQuit,             \* pa_mainloop_quit was called on the session's mainloop
    paContexts,         \* pa_context objects not yet unref'd -> their state
    paStreams,          \* pa_stream objects not yet unref'd -> [ctx, state, dev]
    paQuery,            \* the device query in flight: [kind, source, name]
    audioQueues,        \* AudioQueue objects not yet disposed -> "created" / "started"
    cb,                 \* the buffer callback in progress on the backend's thread
    errorOccurred,      \* the messages emitted through errorOccurred, in order
    deviceChanged,      \* the UIDs emitted through deviceChanged, in order
    ctl,                \* the controller call in progress
    ret,                \* the controller call that returned last
    nextId,             \* the next backend object's address
    sessions,           \* start() attempts made so far
    buffers,            \* buffers processed so far
    lastStored          \* per channel, the value of the latest whole store

vars ==
    <<platform, options_, currentDeviceUID_, leftVuDb_, rightVuDb_, running_,
      thread_, mainloop_, context_, stream_, audioQueue_, buffers_,
      ballisticsL_, ballisticsR_, filter, paMainloops, paQuit, paContexts,
      paStreams, paQuery, audioQueues, cb, errorOccurred, deviceChanged, ctl,
      ret, nextId, sessions, buffers, lastStored>>

\* AudioCapture's own fields
objectVars ==
    <<options_, currentDeviceUID_, leftVuDb_, rightVuDb_, running_, thread_,
      mainloop_, context_, stream_, audioQueue_, buffers_, ballisticsL_,
      ballisticsR_, filter>>

\* the backend's objects
backendVars ==
    <<paMainloops, paQuit, paContexts, paStreams, paQuery, audioQueues>>

signalVars == <<errorOccurred, deviceChanged>>

nullptr == 0

NoQuery == [kind |-> "none", source |-> FALSE, name |-> ""]

CbIdle ==
    [pc |-> "idle", vuL |-> kMinVu, vuR |-> kMinVu, owner |-> nullptr,
     ref |-> 0]

\* what a call finds when it is entered; the reference is kept by
\* setReferenceDbfs only (ReferenceBefore)
Before ==
    [running |-> running_, uid |-> currentDeviceUID_,
     deviceName |-> options_.deviceName, changed |-> Len(deviceChanged),
     objects |-> nextId, left |-> leftVuDb_, right |-> rightVuDb_,
     referenceDbfs |-> 0, referenceDbfsOverride |-> FALSE]

NoCall ==
    [running |-> FALSE, uid |-> "", deviceName |-> "", changed |-> 0,
     objects |-> 0, left |-> 0, right |-> 0, referenceDbfs |-> 0,
     referenceDbfsOverride |-> FALSE]

\* the reference setReferenceDbfs finds when it is entered
ReferenceBefore ==
    [NoCall EXCEPT !.referenceDbfs = options_.referenceDbfs,
                   !.referenceDbfsOverride = options_.referenceDbfsOverride]

Idle == [op |-> "none", pc |-> "idle", uid |-> "", value |-> 0, before |-> NoCall]

Returned(op, ok, error, uid, before) ==
    [op |-> op, ok |-> ok, error |-> error, uid |-> uid, before |-> before,
     list |-> <<>>]

\* AudioCapture::leftVuDb / rightVuDb
leftVuDb == leftVuDb_

rightVuDb == rightVuDb_

\* AudioCapture::currentDeviceUID
currentDeviceUID == currentDeviceUID_

\* AudioCapture::referenceDbfs
referenceDbfs == options_.referenceDbfs

\* a store that is not atomic: a reader can find the new value's thousandths
\* under the old value's whole decibels
tornStore(old, v) ==
    IF IsNaN(old) \/ IsNaN(v) THEN old ELSE ((old \div 1000) * 1000) + (v % 1000)

\* std::atomic<float>::store(v): the whole value replaces the old one
atomicStore(old, v) == v

(***************************************************************************)
(* Construction: AudioCapture(options) from main() through MainWindow.     *)
(***************************************************************************)
Init ==
    /\ platform \in {"pulse", "coreaudio"}
    /\ options_ \in CommandLines
    /\ currentDeviceUID_ = options_.deviceName
    /\ leftVuDb_ = kMinVu
    /\ rightVuDb_ = kMinVu
    /\ running_ = FALSE
    /\ thread_ = "none"
    /\ mainloop_ = nullptr
    /\ context_ = nullptr
    /\ stream_ = nullptr
    /\ audioQueue_ = nullptr
    /\ buffers_ = [i \in 1..kNumBuffers |-> nullptr]
    /\ ballisticsL_ = VUBallistics(kMinVu)
    /\ ballisticsR_ = VUBallistics(kMinVu)
    /\ filter = FreshFilter
    /\ paMainloops = {}
    /\ paQuit = FALSE
    /\ paContexts = EmptyMap
    /\ paStreams = EmptyMap
    /\ paQuery = NoQuery
    /\ audioQueues = EmptyMap
    /\ cb = CbIdle
    /\ errorOccurred = <<>>
    /\ deviceChanged = <<>>
    /\ ctl = Idle
    /\ ret = Returned("none", TRUE, "", "", NoCall)
    /\ nextId = 1
    /\ sessions = 0
    /\ buffers = 0
    /\ lastStored = [L |-> kMinVu, R |-> kMinVu]

(***************************************************************************)
(* AudioCapture::start.  startOutcome is the whole function as a function  *)
(* of the state it is called in: the value returned, the message left in   *)
(* errorOut and the fields and backend objects afterwards.  fault names    *)
(* the backend call that fails in this attempt.                            *)
(***************************************************************************)
PulseFaults == {"none", "mainloop", "context", "connect"}

CoreAudioFaults == {"none", "queue", "device", "alloc", "enqueue", "start"}

\* the UIDs AudioQueueSetProperty(kAudioQueueProperty_CurrentDevice) accepts
CoreAudioDevices == Range(SinkList) \cup Range(SourceList)

DefaultInputUID == "M"

Unchanged ==
    [ok |-> TRUE, error |-> "", attempt |-> FALSE,
     running_ |-> running_, thread_ |-> thread_, mainloop_ |-> mainloop_,
     context_ |-> context_, audioQueue_ |-> audioQueue_, buffers_ |-> buffers_,
     currentDeviceUID_ |-> currentDeviceUID_, paMainloops |-> paMainloops,
     paQuit |-> paQuit, paContexts |-> paContexts, audioQueues |-> audioQueues,
     nextId |-> nextId]

\* a start() that begins a session whatever the flag was
neverRunning(flag) == FALSE

\* if (running_.exchange(true)) return true;
alreadyRunning(flag) == flag

\* a failure path that forgets running_.store(false)
runningLeftSet == TRUE

\* the value running_ is left with on a failure path of start()
runningAfterFailure == FALSE

start_pulse(fault) ==
    IF alreadyRunning(running_) THEN Unchanged
    ELSE CASE fault = "mainloop" ->
                [Unchanged EXCEPT !.ok = FALSE, !.attempt = TRUE,
                    !.error = "Failed to create PulseAudio mainloop",
                    !.mainloop_ = nullptr,
                    !.running_ = runningAfterFailure]
           [] fault = "context" ->
                [Unchanged EXCEPT !.ok = FALSE, !.attempt = TRUE,
                    !.error = "Failed to create PulseAudio context",
                    !.mainloop_ = nullptr, !.context_ = nullptr,
                    !.running_ = runningAfterFailure]
           [] fault = "connect" ->
                [Unchanged EXCEPT !.ok = FALSE, !.attempt = TRUE,
                    !.error = "Failed to connect to PulseAudio",
                    !.mainloop_ = nullptr, !.context_ = nullptr,
                    !.running_ = runningAfterFailure]
           [] OTHER ->
                [Unchanged EXCEPT !.attempt = TRUE,
                    !.running_ = TRUE,
                    !.mainloop_ = nextId,
                    !.context_ = nextId + 1,
                    !.paMainloops = paMainloops \cup {nextId},
                    !.paQuit = FALSE,
                    !.paContexts = Put(paContexts, nextId + 1, "connecting"),
                    !.thread_ = "running",
                    !.nextId = nextId + 2]

\* hasDefault: the default input device and its UID can be read
start_coreaudio(fault, hasDefault) ==
    LET named   == options_.deviceName # ""
        chosen  == IF named THEN options_.deviceName
                   ELSE IF hasDefault THEN DefaultInputUID ELSE currentDeviceUID_
        queue   == nextId
        failed(msg, uid, bufs) ==
            [Unchanged EXCEPT !.ok = FALSE, !.attempt = TRUE, !.error = msg,
                !.audioQueue_ = nullptr, !.currentDeviceUID_ = uid,
                !.buffers_ = bufs, !.running_ = runningAfterFailure]
    IN IF alreadyRunning(running_) THEN Unchanged
       ELSE CASE fault = "queue" ->
                [Unchanged EXCEPT !.ok = FALSE, !.attempt = TRUE,
                    !.error = "Failed to create audio input queue",
                    !.running_ = runningAfterFailure]
              [] named /\ (fault = "device" \/ options_.deviceName \notin CoreAudioDevices) ->
                failed("Failed to set audio device", currentDeviceUID_, buffers_)
              [] fault = "alloc" ->
                failed("Failed to allocate audio buffer", chosen,
                       [buffers_ EXCEPT ![1] = queue + 1])
              [] fault = "enqueue" ->
                failed("Failed to enqueue audio buffer", chosen,
                       [buffers_ EXCEPT ![1] = queue + 1])
              [] fault = "start" ->
                failed("Failed to start audio queue", chosen,
                       [i \in 1..kNumBuffers |-> queue + i])
              [] OTHER ->
                [Unchanged EXCEPT !.attempt = TRUE,
                    !.running_ = TRUE,
                    !.audioQueue_ = queue,
                    !.currentDeviceUID_ = chosen,
                    !.buffers_ = [i \in 1..kNumBuffers |-> queue + i],
                    !.audioQueues = Put(audioQueues, queue, "started"),
                    !.nextId = nextId + 1 + kNumBuffers]

\* the outcomes start() can have in the current state
startOutcomes ==
    IF platform = "pulse"
    THEN {start_pulse(fault) : fault \in PulseFaults}
    ELSE {start_coreaudio(fault, hasDefault) :
              fault \in CoreAudioFaults, hasDefault \in BOOLEAN}

\* the fields and objects start() writes, left as outcome o says
startApplies(o) ==
    /\ ~o.attempt \/ sessions < MaxSessions
    /\ sessions' = IF o.attempt THEN sessions + 1 ELSE sessions
    /\ running_' = o.running_
    /\ thread_' = o.thread_
    /\ mainloop_' = o.mainloop_
    /\ context_' = o.context_
    /\ audioQueue_' = o.audioQueue_
    /\ buffers_' = o.buffers_
    /\ paMainloops' = o.paMainloops
    /\ paQuit' = o.paQuit
    /\ paContexts' = o.paContexts
    /\ audioQueues' = o.audioQueues
    /\ nextId' = o.nextId

start ==
    /\ ctl = Idle
    /\ \E o \in startOutcomes :
          /\ startApplies(o)
          /\ currentDeviceUID_' = o.currentDeviceUID_
          /\ ret' = Returned("start", o.ok, o.error, "", Before)
    /\ UNCHANGED <<platform, options_, leftVuDb_, rightVuDb_, stream_,
                   ballisticsL_, ballisticsR_, filter, paStreams, paQuery, cb,
                   errorOccurred, deviceChanged, ctl, buffers, lastStored>>

(***************************************************************************)
(* AudioCapture::stop, in two steps: up to the request that the backend    *)
(* thread ends, and from the join on.  switchDevice calls it first, so the *)
(* steps carry the call they belong to.                                    *)
(***************************************************************************)
\* an exchange that leaves the flag set
exchangeLeavesSet(r) == [found |-> r, left |-> TRUE]

\* running_.exchange(false): the value found and the value left
stopExchange(r) == [found |-> r, left |-> FALSE]

\* a stop() that does not wait for the thread
joinsAtOnce == TRUE

\* pa_mainloop_run has returned, so thread_.join() returns: the mainloop was
\* told to quit and the callback it was dispatching has finished
threadExited == paQuit /\ cb.pc = "idle"

\* AudioQueueStop(audioQueue_, true) returns: no callback is in progress
queueStopped == cb.pc = "idle"

\* the first step of stop() inside call op: returns at once when the object
\* was not running, else asks the mainloop to quit
stopBegins(op, uid, next) ==
    LET x == stopExchange(running_)
    IN /\ running_' = x.left
       /\ IF ~x.found
          THEN /\ ctl' = next
               /\ UNCHANGED paQuit
          ELSE /\ ctl' = [op |-> op, pc |-> "join", uid |-> uid, value |-> 0,
                            before |-> Before]
               /\ paQuit' = IF platform = "pulse" /\ mainloop_ # nullptr
                            THEN TRUE ELSE paQuit

\* the streams of context c, left terminated when c is disconnected
Terminated(streams, c) ==
    [s \in DOMAIN streams |->
        IF streams[s].ctx = c THEN [streams[s] EXCEPT !.state = "terminated"]
        ELSE streams[s]]

\* a release that frees the object and keeps the stale pointer
danglingHandle(h) == h

\* pa_mainloop_free(mainloop_); mainloop_ = nullptr;
freedHandle(h) == nullptr

\* the rest of stop() on PulseAudio: join, then release stream_, context_, mainloop_
stopJoins_pulse ==
    /\ thread_ = "running" => threadExited
    /\ thread_' = "none"
    /\ stream_' = nullptr
    /\ context_' = nullptr
    /\ mainloop_' = freedHandle(mainloop_)
    /\ paStreams' =
          LET kept == IF stream_ # nullptr THEN Drop(paStreams, stream_) ELSE paStreams
          IN IF context_ # nullptr THEN Terminated(kept, context_) ELSE kept
    /\ paContexts' = IF context_ # nullptr THEN Drop(paContexts, context_) ELSE paContexts
    /\ paQuery' = IF context_ # nullptr THEN NoQuery ELSE paQuery
    /\ paMainloops' = IF mainloop_ # nullptr THEN paMainloops \ {mainloop_} ELSE paMainloops
    /\ UNCHANGED <<audioQueue_, buffers_, audioQueues, paQuit>>

\* the rest of stop() on CoreAudio: stop and dispose the queue, forget the buffers
stopJoins_coreaudio ==
    /\ audioQueue_ # nullptr => queueStopped
    /\ audioQueues' = IF audioQueue_ # nullptr THEN Drop(audioQueues, audioQueue_)
                      ELSE audioQueues
    /\ audioQueue_' = nullptr
    /\ buffers_' = [i \in 1..kNumBuffers |-> nullptr]
    /\ UNCHANGED <<thread_, stream_, context_, mainloop_, paStreams, paContexts,
                   paQuery, paMainloops, paQuit>>

stopJoins ==
    IF platform = "pulse" THEN stopJoins_pulse ELSE stopJoins_coreaudio

stop ==
    /\ ctl = Idle
    /\ stopBegins("stop", "", Idle)
    /\ ret' = IF running_ THEN ret ELSE Returned("stop", TRUE, "", "", Before)
    /\ UNCHANGED <<platform, options_, currentDeviceUID_, leftVuDb_, rightVuDb_,
                   thread_, mainloop_, context_, stream_, audioQueue_, buffers_,
                   ballisticsL_, ballisticsR_, filter, paMainloops, paContexts,
                   paStreams, paQuery, audioQueues, cb, errorOccurred,
                   deviceChanged, nextId, sessions, buffers, lastStored>>

\* a stop() that puts the published level back to the bottom of the scale
levelResetByStop(level) == kMinVu

\* stop() has no store to leftVuDb_ or rightVuDb_: the published level stays
levelAfterStop(level) == level

stop_join ==
    /\ ctl.op = "stop"
    /\ ctl.pc = "join"
    /\ stopJoins
    /\ leftVuDb_' = levelAfterStop(leftVuDb_)
    /\ rightVuDb_' = levelAfterStop(rightVuDb_)
    /\ ctl' = Idle
    /\ ret' = Returned("stop", TRUE, "", "", ctl.before)
    /\ UNCHANGED <<platform, options_, currentDeviceUID_,
                   running_, ballisticsL_, ballisticsR_, filter, cb,
                   errorOccurred, deviceChanged, nextId, sessions, buffers,
                   lastStored>>

(***************************************************************************)
(* AudioCapture::switchDevice: stop(), the reset, the new device name,     *)
(* start(), and deviceChanged on success.                                  *)
(***************************************************************************)
\* the filter state after the reset of switchDevice: CoreAudio clears its
\* members, PulseAudio leaves the static locals of the callback alone
filterAfterSwitch ==
    IF platform = "coreaudio" THEN FreshFilter ELSE filter

\* a switchDevice that emits whatever start() returned
deviceChangedAlways(success, emitted, deviceUID) == Append(emitted, deviceUID)

\* the deviceChanged emissions after start() returned success
deviceChangedAfter(success, emitted, deviceUID) ==
    IF success THEN Append(emitted, deviceUID) ELSE emitted

switchDevice(deviceUID) ==
    /\ ctl = Idle
    /\ sessions < MaxSessions
    /\ stopBegins("switchDevice", deviceUID,
                  [op |-> "switchDevice", pc |-> "reset", uid |-> deviceUID, value |-> 0,
                   before |-> Before])
    /\ UNCHANGED <<platform, options_, currentDeviceUID_, leftVuDb_, rightVuDb_,
                   thread_, mainloop_, context_, stream_, audioQueue_, buffers_,
                   ballisticsL_, ballisticsR_, filter, paMainloops, paContexts,
                   paStreams, paQuery, audioQueues, cb, errorOccurred,
                   deviceChanged, ret, nextId, sessions, buffers, lastStored>>

switchDevice_join ==
    /\ ctl.op = "switchDevice"
    /\ ctl.pc = "join"
    /\ stopJoins
    /\ ctl' = [ctl EXCEPT !.pc = "reset"]
    /\ UNCHANGED <<platform, options_, currentDeviceUID_, leftVuDb_, rightVuDb_,
                   running_, ballisticsL_, ballisticsR_, filter, cb,
                   errorOccurred, deviceChanged, ret, nextId, sessions, buffers,
                   lastStored>>

switchDevice_reset ==
    /\ ctl.op = "switchDevice"
    /\ ctl.pc = "reset"
    /\ filter' = filterAfterSwitch
    /\ ballisticsL_' = reset(kMinVu)
    /\ ballisticsR_' = reset(kMinVu)
    /\ leftVuDb_' = atomicStore(leftVuDb_, kMinVu)
    /\ rightVuDb_' = atomicStore(rightVuDb_, kMinVu)
    /\ lastStored' = [L |-> kMinVu, R |-> kMinVu]
    /\ options_' = [options_ EXCEPT !.deviceName = ctl.uid]
    /\ ctl' = [ctl EXCEPT !.pc = "start"]
    /\ UNCHANGED <<platform, currentDeviceUID_, running_, thread_, mainloop_,
                   context_, stream_, audioQueue_, buffers_, paMainloops, paQuit,
                   paContexts, paStreams, paQuery, audioQueues, cb,
                   errorOccurred, deviceChanged, ret, nextId, sessions, buffers>>

switchDevice_start ==
    /\ ctl.op = "switchDevice"
    /\ ctl.pc = "start"
    /\ \E o \in startOutcomes :
          /\ startApplies(o)
          /\ currentDeviceUID_' = IF o.ok THEN ctl.uid ELSE o.currentDeviceUID_
          /\ deviceChanged' = deviceChangedAfter(o.ok, deviceChanged, ctl.uid)
          /\ ret' = Returned("switchDevice", o.ok, o.error, ctl.uid, ctl.before)
    /\ ctl' = Idle
    /\ UNCHANGED <<platform, options_, leftVuDb_, rightVuDb_, stream_,
                   ballisticsL_, ballisticsR_, filter, paStreams, paQuery, cb,
                   errorOccurred, buffers, lastStored>>

(***************************************************************************)
(* AudioCapture::setReferenceDbfs.                                         *)
(***************************************************************************)
\* the two stores of setReferenceDbfs.  They are plain stores to fields the
\* callback reads on its own thread, so the callback can find either of them
\* done without the other.
OptionStores == {"referenceDbfs", "referenceDbfsOverride"}

\* a store that marks the override but loses the value
storeOverrideOnly(opts, field, value) == [opts EXCEPT !.referenceDbfsOverride = TRUE]

\* options_.referenceDbfs = value, or options_.referenceDbfsOverride = true
storeOption(opts, field, value) ==
    IF field = "referenceDbfs" THEN [opts EXCEPT !.referenceDbfs = value]
    ELSE [opts EXCEPT !.referenceDbfsOverride = TRUE]

\* the store that becomes visible first
setReferenceDbfs(value) ==
    /\ ctl = Idle
    /\ \E first \in OptionStores :
          /\ options_' = storeOption(options_, first, value)
          /\ ctl' = [op |-> "setReferenceDbfs", pc |-> first, uid |-> "",
                     value |-> value, before |-> ReferenceBefore]
    /\ UNCHANGED <<platform, currentDeviceUID_, leftVuDb_, rightVuDb_, running_,
                   thread_, mainloop_, context_, stream_, audioQueue_, buffers_,
                   ballisticsL_, ballisticsR_, filter, cb, ret, nextId, sessions,
                   buffers, lastStored>>
    /\ UNCHANGED backendVars
    /\ UNCHANGED signalVars

\* the other store, and setReferenceDbfs returns
setReferenceDbfs_second ==
    /\ ctl.op = "setReferenceDbfs"
    /\ \E second \in OptionStores \ {ctl.pc} :
          options_' = storeOption(options_, second, ctl.value)
    /\ ctl' = Idle
    /\ UNCHANGED <<platform, currentDeviceUID_, leftVuDb_, rightVuDb_, running_,
                   thread_, mainloop_, context_, stream_, audioQueue_, buffers_,
                   ballisticsL_, ballisticsR_, filter, cb, ret, nextId, sessions,
                   buffers, lastStored>>
    /\ UNCHANGED backendVars
    /\ UNCHANGED signalVars

(***************************************************************************)
(* The PulseAudio callbacks, dispatched by pa_mainloop_run on thread_.     *)
(***************************************************************************)
\* the mainloop dispatches the next event
dispatching ==
    /\ platform = "pulse"
    /\ thread_ = "running"
    /\ ~paQuit
    /\ cb.pc = "idle"

\* si == NULL
NoInfo == ""

\* a context callback that issues the query but keeps a lost connection to itself
contextFailsSilently(st, emitted, query) ==
    [errorOccurred |-> emitted,
     paQuery |-> IF st = "ready"
                 THEN [kind   |-> IF options_.deviceName # "" THEN "by_name" ELSE "list",
                       source |-> options_.deviceType = 1,
                       name   |-> options_.deviceName]
                 ELSE query]

\* a context callback that asks for the device whatever the state is
contextAlwaysQueries(st, emitted, query) ==
    [errorOccurred |-> IF st = "failed"
                       THEN Append(emitted, "PulseAudio context failed")
                       ELSE emitted,
     paQuery |-> [kind   |-> IF options_.deviceName # "" THEN "by_name" ELSE "list",
                  source |-> options_.deviceType = 1,
                  name   |-> options_.deviceName]]

\* AudioCapture::context_state_callback in state st: the messages emitted
\* and the query outstanding afterwards
context_state_callback(st, emitted, query) ==
    CASE st = "ready" ->
           [errorOccurred |-> emitted,
            paQuery |-> [kind   |-> IF options_.deviceName # "" THEN "by_name" ELSE "list",
                         source |-> options_.deviceType = 1,
                         name   |-> options_.deviceName]]
      [] st = "failed" ->
           [errorOccurred |-> Append(emitted, "PulseAudio context failed"),
            paQuery |-> query]
      [] OTHER -> [errorOccurred |-> emitted, paQuery |-> query]

\* a stream callback that reports a failure twice
streamReportsTwice(st, emitted) ==
    IF st = "failed"
    THEN Append(Append(emitted, "PulseAudio stream failed"), "PulseAudio stream failed")
    ELSE emitted

\* AudioCapture::stream_state_callback in state st: the messages emitted
stream_state_callback(st, emitted) ==
    IF st = "failed" THEN Append(emitted, "PulseAudio stream failed") ELSE emitted

\* pa_stream_new_with_proplist, the two callbacks and pa_stream_connect_record
newStream(acc, dev, monitor) ==
    [acc EXCEPT !.stream_ = acc.nextId,
                !.paStreams = Put(@, acc.nextId,
                                  [ctx |-> context_, state |-> "creating",
                                   dev |-> dev, monitor |-> monitor,
                                   hole |-> FALSE]),
                !.nextId = @ + 1]

\* AudioCapture::sink_info_callback
sink_info_callback(acc, si, is_last) ==
    IF is_last < 0 \/ si = NoInfo
    THEN [acc EXCEPT !.errorOccurred = Append(@, "Failed to get sink info")]
    ELSE IF is_last > 0 THEN acc
    ELSE newStream(acc, si, TRUE)

\* AudioCapture::source_info_callback
source_info_callback(acc, si, is_last) ==
    IF is_last < 0 \/ si = NoInfo
    THEN [acc EXCEPT !.errorOccurred = Append(@, "Failed to get source info")]
    ELSE IF is_last > 0 THEN acc
    ELSE newStream(acc, si, FALSE)

\* the calls the server's reply to query q makes: one per device found, then
\* the end of the list; a name that is not found gives one call with an error
infoCalls(q) ==
    LET list == IF q.source THEN SourceList ELSE SinkList
        end  == [si |-> NoInfo, is_last |-> 1]
    IN IF q.kind = "list"
       THEN [i \in 1..Len(list) |-> [si |-> list[i], is_last |-> 0]] \o <<end>>
       ELSE IF q.name \in Range(list)
            THEN <<[si |-> q.name, is_last |-> 0], end>>
            ELSE <<[si |-> NoInfo, is_last |-> -1]>>

RECURSIVE infoReply(_, _, _)
infoReply(acc, q, calls) ==
    IF calls = <<>> THEN acc
    ELSE infoReply(IF q.source
                   THEN source_info_callback(acc, Head(calls).si, Head(calls).is_last)
                   ELSE sink_info_callback(acc, Head(calls).si, Head(calls).is_last),
                   q, Tail(calls))

\* PA_CONTEXT_READY
context_ready ==
    /\ dispatching
    /\ context_ \in DOMAIN paContexts
    /\ paContexts[context_] = "connecting"
    /\ paContexts' = [paContexts EXCEPT ![context_] = "ready"]
    /\ LET r == context_state_callback("ready", errorOccurred, paQuery)
       IN /\ errorOccurred' = r.errorOccurred
          /\ paQuery' = r.paQuery
    /\ UNCHANGED <<platform, objectVars, paMainloops, paQuit, paStreams,
                   audioQueues, cb, deviceChanged, ctl, ret, nextId, sessions,
                   buffers, lastStored>>

\* the streams of context c that the failure of c takes along
liveStreams(c) ==
    {s \in DOMAIN paStreams :
        paStreams[s].ctx = c /\ paStreams[s].state \in {"creating", "ready"}}

RECURSIVE streamsFail(_, _)
streamsFail(n, emitted) ==
    IF n = 0 THEN emitted
    ELSE streamsFail(n - 1, stream_state_callback("failed", emitted))

\* PA_CONTEXT_FAILED: the connection is lost; its streams fail first
context_failed ==
    /\ dispatching
    /\ context_ \in DOMAIN paContexts
    /\ paContexts[context_] \in {"connecting", "ready"}
    /\ paContexts' = [paContexts EXCEPT ![context_] = "failed"]
    /\ paStreams' = [s \in DOMAIN paStreams |->
                        IF s \in liveStreams(context_)
                        THEN [paStreams[s] EXCEPT !.state = "failed"]
                        ELSE paStreams[s]]
    /\ LET r == context_state_callback(
                    "failed",
                    streamsFail(Cardinality(liveStreams(context_)), errorOccurred),
                    NoQuery)
       IN /\ errorOccurred' = r.errorOccurred
          /\ paQuery' = r.paQuery
    /\ UNCHANGED <<platform, objectVars, paMainloops, paQuit, audioQueues, cb,
                   deviceChanged, ctl, ret, nextId, sessions, buffers,
                   lastStored>>

\* the reply to the device query arrives
info_reply ==
    /\ dispatching
    /\ paQuery.kind # "none"
    /\ LET acc == infoReply([stream_ |-> stream_, paStreams |-> paStreams,
                             errorOccurred |-> errorOccurred, nextId |-> nextId],
                            paQuery, infoCalls(paQuery))
       IN /\ stream_' = acc.stream_
          /\ paStreams' = acc.paStreams
          /\ errorOccurred' = acc.errorOccurred
          /\ nextId' = acc.nextId
    /\ paQuery' = NoQuery
    /\ UNCHANGED <<platform, options_, currentDeviceUID_, leftVuDb_, rightVuDb_,
                   running_, thread_, mainloop_, context_, audioQueue_, buffers_,
                   ballisticsL_, ballisticsR_, filter, paMainloops, paQuit,
                   paContexts, audioQueues, cb, deviceChanged, ctl, ret,
                   sessions, buffers, lastStored>>

\* PA_STREAM_READY or PA_STREAM_FAILED on stream s
stream_state(s, st) ==
    /\ dispatching
    /\ s \in DOMAIN paStreams
    /\ paStreams[s].state \in (IF st = "ready" THEN {"creating"}
                                ELSE {"creating", "ready"})
    /\ paStreams' = [paStreams EXCEPT ![s].state = st]
    /\ errorOccurred' = stream_state_callback(st, errorOccurred)
    /\ UNCHANGED <<platform, objectVars, paMainloops, paQuit, paContexts,
                   paQuery, audioQueues, cb, deviceChanged, ctl, ret, nextId,
                   sessions, buffers, lastStored>>

(***************************************************************************)
(* The buffer callbacks.  A callback computes both levels, then stores the *)
(* left one, then the right one; the two stores are steps of their own.    *)
(***************************************************************************)
\* the callback goes on to its stores with the levels it computed
computed(x, owner) ==
    /\ filter' = x.f
    /\ ballisticsL_' = x.bL
    /\ ballisticsR_' = x.bR
    /\ cb' = [pc |-> "storeL", vuL |-> x.vuL, vuR |-> x.vuR, owner |-> owner,
              ref |-> x.ref]

\* pa_stream_peek(s, &p, &length) < 0 || !p || length == 0: nothing arrived,
\* or the read index of the stream stands at a hole that was never dropped
peekFindsNothing(stream, data) == stream.hole \/ Len(data) = 0

\* AudioCapture::stream_read_callback on stream s, up to the clamp
read_callback(s, data, randL, randR) ==
    /\ dispatching
    /\ s \in DOMAIN paStreams
    /\ paStreams[s].state = "ready"
    /\ LET ss       == SampleSpec(paStreams[s].dev)
           channels == ss.channels
           frames   == IF channels < 1 THEN 0 ELSE Len(data) \div channels
       IN IF peekFindsNothing(paStreams[s], data) \/ channels < 1 \/ frames = 0
          THEN UNCHANGED <<filter, ballisticsL_, ballisticsR_, cb>>
          ELSE computed(levelExtractor(filter, ballisticsL_, ballisticsR_,
                                       options_, data, channels, frames,
                                       ss.rate, randL, randR), s)
    /\ UNCHANGED <<platform, options_, currentDeviceUID_, leftVuDb_, rightVuDb_,
                   running_, thread_, mainloop_, context_, stream_, audioQueue_,
                   buffers_, ctl, ret, nextId, sessions, lastStored>>
    /\ UNCHANGED backendVars
    /\ UNCHANGED signalVars

\* one of the MaxBuffers buffers of arbitrary content a run delivers
stream_read_callback(s, data, randL, randR) ==
    /\ buffers < MaxBuffers
    /\ buffers' = buffers + 1
    /\ read_callback(s, data, randL, randR)

\* AudioCapture::audioInputCallback with processAudioBuffer, up to the clamp
input_callback(data, randL, randR) ==
    /\ platform = "coreaudio"
    /\ audioQueue_ \in DOMAIN audioQueues
    /\ audioQueues[audioQueue_] = "started"
    /\ cb.pc = "idle"
    /\ LET frames == Len(data) \div 2
       IN IF ~running_ \/ frames = 0
          THEN UNCHANGED <<filter, ballisticsL_, ballisticsR_, cb>>
          ELSE computed(levelExtractor(filter, ballisticsL_, ballisticsR_,
                                       options_, data, 2, frames,
                                       options_.sampleRate, randL, randR),
                        audioQueue_)
    /\ UNCHANGED <<platform, options_, currentDeviceUID_, leftVuDb_, rightVuDb_,
                   running_, thread_, mainloop_, context_, stream_, audioQueue_,
                   buffers_, ctl, ret, nextId, sessions, lastStored>>
    /\ UNCHANGED backendVars
    /\ UNCHANGED signalVars

\* one of the MaxBuffers buffers of arbitrary content a run delivers
audioInputCallback(data, randL, randR) ==
    /\ buffers < MaxBuffers
    /\ buffers' = buffers + 1
    /\ input_callback(data, randL, randR)

\* leftVuDb_.store(vuL, std::memory_order_relaxed)
store_left ==
    /\ cb.pc = "storeL"
    /\ leftVuDb_' = atomicStore(leftVuDb_, cb.vuL)
    /\ lastStored' = [lastStored EXCEPT !.L = cb.vuL]
    /\ cb' = [cb EXCEPT !.pc = "storeR"]
    /\ UNCHANGED <<platform, options_, currentDeviceUID_, rightVuDb_, running_,
                   thread_, mainloop_, context_, stream_, audioQueue_, buffers_,
                   ballisticsL_, ballisticsR_, filter, ctl, ret, nextId,
                   sessions, buffers>>
    /\ UNCHANGED backendVars
    /\ UNCHANGED signalVars

\* rightVuDb_.store(vuR, std::memory_order_relaxed), and the callback returns
store_right ==
    /\ cb.pc = "storeR"
    /\ rightVuDb_' = atomicStore(rightVuDb_, cb.vuR)
    /\ lastStored' = [lastStored EXCEPT !.R = cb.vuR]
    /\ cb' = CbIdle
    /\ UNCHANGED <<platform, options_, currentDeviceUID_, leftVuDb_, running_,
                   thread_, mainloop_, context_, stream_, audioQueue_, buffers_,
                   ballisticsL_, ballisticsR_, filter, ctl, ret, nextId,
                   sessions, buffers>>
    /\ UNCHANGED backendVars
    /\ UNCHANGED signalVars

(***************************************************************************)
(* The program: the controller's calls, one at a time, interleaved with    *)
(* the backend's callbacks.                                                *)
(***************************************************************************)
Next ==
    \/ start
    \/ stop
    \/ stop_join
    \/ \E deviceUID \in UIDs : switchDevice(deviceUID)
    \/ switchDevice_join
    \/ switchDevice_reset
    \/ switchDevice_start
    \/ \E value \in RefValues : setReferenceDbfs(value)
    \/ setReferenceDbfs_second
    \/ context_ready
    \/ context_failed
    \/ info_reply
    \/ \E s \in DOMAIN paStreams, st \in {"ready", "failed"} : stream_state(s, st)
    \/ \E s \in DOMAIN paStreams, data \in Buffers, rand \in RandValues :
          stream_read_callback(s, data, rand[1], rand[2])
    \/ \E data \in Buffers, rand \in RandValues :
          audioInputCallback(data, rand[1], rand[2])
    \/ store_left
    \/ store_right

Spec == Init /\ [][Next]_vars

(***************************************************************************)
(* Properties.                                                             *)
(***************************************************************************)
\* the devices of the audio server
KnownDevices == Range(SinkList) \cup Range(SourceList)

\* the callback in progress belongs to a live object of the current session
ownerLive ==
    IF platform = "pulse"
    THEN /\ cb.owner \in DOMAIN paStreams
         /\ paStreams[cb.owner].ctx = context_
         /\ context_ \in DOMAIN paContexts
         /\ thread_ = "running"
    ELSE /\ cb.owner = audioQueue_
         /\ audioQueue_ \in DOMAIN audioQueues

\* the failure reports among the messages emitted
failureReports(emitted) ==
    Cardinality({i \in DOMAIN emitted :
                    emitted[i] \in {"PulseAudio context failed",
                                    "PulseAudio stream failed"}})

\* the contexts and streams in state FAILED
failedObjects(contexts, streams) ==
    Cardinality({c \in DOMAIN contexts : contexts[c] = "failed"})
    + Cardinality({x \in DOMAIN streams : streams[x].state = "failed"})

\* C1: in every reachable state the levels leftVuDb() and rightVuDb() return
\* lie in the display range [kMinVu, kMaxVu] = [-22, +3] dB.
C1_LevelsInDisplayRange ==
    /\ ~IsNaN(leftVuDb) /\ kMinVu <= leftVuDb /\ leftVuDb <= kMaxVu
    /\ ~IsNaN(rightVuDb) /\ kMinVu <= rightVuDb /\ rightVuDb <= kMaxVu

\* C2: under every interleaving, each of leftVuDb() and rightVuDb() returns the
\* value of the most recent whole store to its channel (constructor, floor
\* reset of switchDevice, or a callback's store), never a partial value, and a
\* callback that has computed its levels can always perform its store.
C2_ReadersSeeLatestWholeStore ==
    /\ leftVuDb = lastStored.L
    /\ rightVuDb = lastStored.R
    /\ cb.pc = "storeL" => ENABLED store_left
    /\ cb.pc = "storeR" => ENABLED store_right

\* a callback has stored a left level above the floor and is about to store
\* the right one, which differs from the right level a reader still finds
C2_StoreBetweenChannels ==
    /\ cb.pc = "storeR"
    /\ leftVuDb = cb.vuL
    /\ leftVuDb > kMinVu
    /\ rightVuDb # cb.vuR

\* C3: stop() on an object that was never started, whose start() or
\* switchDevice() failed, or that was already stopped changes no field of the
\* object, releases no backend object and emits nothing.
C3_StopIdempotent ==
    [][(/\ stop
        /\ \/ sessions = 0
           \/ ret.op \in {"start", "switchDevice"} /\ ~ret.ok
           \/ ret.op = "stop")
       => /\ UNCHANGED objectVars
          /\ UNCHANGED backendVars
          /\ UNCHANGED signalVars
          /\ ctl' = Idle]_vars

\* stop() has returned from a call made on an object that an earlier stop()
\* of a running session had already stopped
C3_StoppedTwice ==
    /\ ret.op = "stop"
    /\ ~ret.before.running
    /\ ret.before.objects > 1
    /\ ctl = Idle
    /\ ~running_

\* C4: when stop() has returned after a running session, the thread is
\* joined, every stream, context and mainloop created in the session is
\* released and no callback of the session is in progress.
C4_StopReleasesSession ==
    (ret.op = "stop" /\ ret.before.running /\ ctl = Idle)
    => /\ thread_ = "none"
       /\ cb.pc = "idle"
       /\ paMainloops = {}
       /\ DOMAIN paContexts = {}
       /\ DOMAIN paStreams = {}
       /\ DOMAIN audioQueues = {}

\* C5: switchDevice stops the session (thread joined, no callback in
\* progress) before it resets; when it comes to start(), both ballistics
\* instances and both levels are at the floor and the device is the one
\* requested; a callback in progress always belongs to the current session;
\* and the levels change only by the reset or by a callback's store.
C5_SwitchDeviceOrder ==
    /\ [](/\ (ctl.op = "switchDevice" /\ ctl.pc \in {"reset", "start"})
             => /\ ~running_
                /\ thread_ = "none"
                /\ cb.pc = "idle"
                /\ mainloop_ = nullptr /\ context_ = nullptr /\ stream_ = nullptr
                /\ audioQueue_ = nullptr
          /\ (ctl.op = "switchDevice" /\ ctl.pc = "start")
             => /\ leftVuDb = kMinVu /\ rightVuDb = kMinVu
                /\ ballisticsL_ = reset(kMinVu) /\ ballisticsR_ = reset(kMinVu)
                /\ options_.deviceName = ctl.uid
          /\ cb.pc # "idle" => ownerLive)
    /\ [][(leftVuDb_' # leftVuDb_ \/ rightVuDb_' # rightVuDb_)
          => \/ /\ ctl.op = "switchDevice" /\ ctl.pc = "reset"
                /\ leftVuDb_' = kMinVu /\ rightVuDb_' = kMinVu
             \/ cb.pc \in {"storeL", "storeR"} /\ ownerLive]_vars

\* switchDevice has reset a level that the old session had published above
\* the floor and is about to start the new session
C5_ResetAfterPublishedLevel ==
    /\ ctl.op = "switchDevice"
    /\ ctl.pc = "start"
    /\ ctl.before.running
    /\ ctl.before.left > kMinVu
    /\ leftVuDb = kMinVu

\* C6: when switchDevice has returned failure, currentDeviceUID() is what it
\* was before the call, deviceChanged was not emitted, and the device a later
\* start() opens (options_.deviceName) is the one from before the call.
C6_FailedSwitchKeepsDevice ==
    (ret.op = "switchDevice" /\ ~ret.ok /\ ctl = Idle)
    => /\ currentDeviceUID = ret.before.uid
       /\ Len(deviceChanged) = ret.before.changed
       /\ options_.deviceName = ret.before.deviceName

\* C7: when switchDevice has returned from a call with a UID that names no
\* device of the server, it returned failure and both levels are the floor.
C7_UnknownDeviceFails ==
    (ret.op = "switchDevice" /\ ret.uid \notin KnownDevices /\ ctl = Idle)
    => /\ ~ret.ok
       /\ leftVuDb = kMinVu
       /\ rightVuDb = kMinVu

\* C8: a switchDevice(uid) that returns success emits deviceChanged(uid)
\* exactly once, in the step in which its start() succeeded and with
\* currentDeviceUID() = uid afterwards; no other step emits deviceChanged.
C8_DeviceChangedOncePerSwitch ==
    [][/\ (ctl.op = "switchDevice" /\ ctl.pc = "start" /\ ctl' = Idle /\ ret'.ok)
          => /\ deviceChanged' = Append(deviceChanged, ctl.uid)
             /\ currentDeviceUID_' = ctl.uid
             /\ running_'
             /\ sessions' = sessions + 1
       /\ deviceChanged' # deviceChanged
          => /\ ctl.op = "switchDevice" /\ ctl.pc = "start" /\ ctl' = Idle
             /\ ret'.op = "switchDevice" /\ ret'.ok]_vars

\* switchDevice has returned success, start() and a failed switchDevice
\* having come before it
C8_SwitchedOnce ==
    /\ ret.op = "switchDevice"
    /\ ret.ok
    /\ ctl = Idle
    /\ sessions > 1
    /\ deviceChanged = <<ret.uid>>
    /\ currentDeviceUID = ret.uid

\* C9: an attempt of start() that fails returns false with a message, leaves
\* no backend object more than there was, no thread, no handle and the object
\* not running.
C9_FailedStartReleases ==
    [][(sessions' = sessions + 1 /\ ~ret'.ok)
       => /\ ret'.error # ""
          /\ ~running_'
          /\ thread_' = "none"
          /\ mainloop_' = nullptr /\ context_' = nullptr /\ audioQueue_' = nullptr
          /\ paMainloops' = paMainloops
          /\ paContexts' = paContexts
          /\ paStreams' = paStreams
          /\ audioQueues' = audioQueues]_vars

\* start() has failed and the start() after it made an attempt of its own,
\* which failed too
C9_FailedTwice ==
    /\ ret.op = "start"
    /\ ~ret.ok
    /\ ret.error # ""
    /\ ~ret.before.running
    /\ sessions > 1
    /\ ~running_

lookupFails ==
    /\ paQuery.kind = "by_name"
    /\ paQuery.name \notin Range(IF paQuery.source THEN SourceList ELSE SinkList)

\* C11: errorOccurred is emitted only for a failure: every step emits as many
\* messages as contexts and streams fail in it, plus one when the reply to a
\* by-name query says the device does not exist; a reply that delivers the
\* device information and the end of the list emits nothing.
C11_ErrorOnlyOnFailure ==
    [][Len(errorOccurred') - Len(errorOccurred)
       = (IF sessions' = sessions /\ ctl' = ctl
          THEN failedObjects(paContexts', paStreams')
               - failedObjects(paContexts, paStreams)
          ELSE 0)
         + (IF info_reply /\ lookupFails THEN 1 ELSE 0)]_vars


\* C12: on PulseAudio a start() that succeeds leaves the thread launched and
\* the context still connecting, with no query outstanding and no stream; a
\* context, lookup or stream failure happens in a step of the background
\* thread, which emits errorOccurred and changes neither the value a call
\* returned nor the call in progress.
C12_StartDoesNotWait ==
    [][/\ (platform = "pulse" /\ sessions' = sessions + 1 /\ ret'.ok)
          => /\ thread_' = "running"
             /\ context_' \in DOMAIN paContexts'
             /\ paContexts'[context_'] = "connecting"
             /\ paQuery' = NoQuery
             /\ \A s \in DOMAIN paStreams' : paStreams'[s].ctx # context_'
       /\ (\/ failedObjects(paContexts', paStreams')
              > failedObjects(paContexts, paStreams)
           \/ info_reply /\ lookupFails)
          => /\ ret' = ret
             /\ ctl' = ctl
             /\ Len(errorOccurred') > Len(errorOccurred)]_vars

\* start() has returned success, and the loss of the connection was reported
\* afterwards while the value returned is still success
C12_FailedAfterSuccess ==
    /\ ret.op = "start"
    /\ ret.ok
    /\ running_
    /\ ctl = Idle
    /\ \E i \in DOMAIN errorOccurred : errorOccurred[i] = "PulseAudio context failed"


\* C13: when setReferenceDbfs(x) returns, referenceDbfs() returns x, in every
\* session state; the value referenceDbfs() returns changes in no step of
\* start(), stop(), switchDevice() or a callback.
C13_ReferenceRoundTrip ==
    [][/\ (ctl.op = "setReferenceDbfs" /\ ctl' = Idle)
          => options_'.referenceDbfs = ctl.value
       /\ options_'.referenceDbfs # options_.referenceDbfs
          => /\ ctl.op = "setReferenceDbfs" \/ ctl'.op = "setReferenceDbfs"
             /\ options_'.referenceDbfs = ctl'.value \/ options_'.referenceDbfs = ctl.value]_vars

\* the reference set on an object built without --ref-dbfs is still returned
\* after a switchDevice that failed
C13_KeptAcrossFailedSwitch ==
    /\ ctl = Idle
    /\ referenceDbfs = 6000
    /\ referenceDbfs # defaultReferenceDbfs
    /\ options_.referenceDbfsOverride
    /\ ret.op = "switchDevice"
    /\ ~ret.ok


\* the reference the level extractor is to subtract for options opts
\* (README, Calibration): the user's value under an override, else 0 dBFS for
\* a microphone and -14 dBFS for system output
referenceInEffect(override, value, deviceType) ==
    IF override THEN value ELSE IF deviceType = 1 THEN micRefDbfs ELSE outputRefDbfs

\* C14: the reference a callback subtracts is the user's value if and only if
\* an override was set by the command line or by a setReferenceDbfs call,
\* else the default of the device type; while a setReferenceDbfs call is in
\* progress it is the reference in effect before the call or the value being
\* set; and an override, once set, stays set.
C14_ReferenceInEffect ==
    [][/\ (cb.pc = "idle" /\ cb'.pc = "storeL")
          => IF ctl.op = "setReferenceDbfs"
             THEN cb'.ref \in {ctl.value,
                               referenceInEffect(ctl.before.referenceDbfsOverride,
                                                 ctl.before.referenceDbfs,
                                                 options_.deviceType)}
             ELSE cb'.ref = referenceInEffect(options_.referenceDbfsOverride,
                                              options_.referenceDbfs,
                                              options_.deviceType)
       /\ options_.referenceDbfsOverride => options_'.referenceDbfsOverride]_vars


(***************************************************************************)
(* AudioCapture::enumerateInputDevices, a static function that works on a  *)
(* mainloop and a context of its own (PulseAudio) or on the system object  *)
(* (CoreAudio).  value is the number of capture endpoints there are.       *)
(***************************************************************************)
\* the numbers of capture endpoints a call can find
Endpoints == {0, Len(SourceList)}

\* the calls of enumerateInputDevices that fail: pa_mainloop_new, pa_context_new;
\* AudioObjectGetPropertyDataSize, AudioObjectGetPropertyData
EnumerateFaults ==
    IF platform = "pulse" THEN {"none", "no_mainloop", "no_context"}
    ELSE {"none", "size_error", "data_error"}

\* a state callback that waits for PA_CONTEXT_READY only
readyOnly(st, flag) == IF st = "ready" THEN TRUE ELSE flag

\* ctx_state_cb: the flag the wait loop tests, after the context entered st
ctx_state_cb(st, flag) ==
    IF st \in {"ready", "failed", "terminated"} THEN TRUE ELSE flag

\* the states the context can enter next while it connects
contextSuccessors(st) ==
    CASE st = "connecting"   -> {"authorizing", "failed"}
      [] st = "authorizing"  -> {"setting_name", "failed"}
      [] st = "setting_name" -> {"ready", "failed"}
      [] OTHER               -> {}

\* while (!ready) pa_mainloop_iterate(...) is over, or there is no such loop
loopExits(pc) ==
    \/ pc \in {"no_mainloop", "no_context", "size_error", "data_error", "listed"}
    \/ ctx_state_cb(pc, FALSE)

\* the list returned: the first n sources when the queries ran, else empty
enumerated(pc, n) ==
    IF pc \in {"ready", "listed"} THEN SubSeq(SourceList, 1, n) ELSE <<>>

enumerateInputDevices(fault, n) ==
    /\ ctl = Idle
    /\ ctl' = [op |-> "enumerateInputDevices",
               pc |-> IF fault # "none" THEN fault
                      ELSE IF platform = "pulse" THEN "connecting" ELSE "listed",
               uid |-> "", value |-> n, before |-> NoCall]
    /\ UNCHANGED <<platform, objectVars, backendVars, signalVars, cb, ret,
                   nextId, sessions, buffers, lastStored>>

\* one pa_mainloop_iterate of the wait loop: the context enters its next state
enumerate_iterate ==
    /\ ctl.op = "enumerateInputDevices"
    /\ ~loopExits(ctl.pc)
    /\ \E st \in contextSuccessors(ctl.pc) : ctl' = [ctl EXCEPT !.pc = st]
    /\ UNCHANGED <<platform, objectVars, backendVars, signalVars, cb, ret,
                   nextId, sessions, buffers, lastStored>>

\* the queries, the cleanup and the return
enumerate_returns ==
    /\ ctl.op = "enumerateInputDevices"
    /\ loopExits(ctl.pc)
    /\ ret' = [Returned("enumerateInputDevices", TRUE, "", "", NoCall)
                  EXCEPT !.list = enumerated(ctl.pc, ctl.value)]
    /\ ctl' = Idle
    /\ UNCHANGED <<platform, objectVars, backendVars, signalVars, cb,
                   nextId, sessions, buffers, lastStored>>

\* sessions in every state, and enumerations while they are in it
EnumerateNext ==
    \/ start
    \/ stop
    \/ stop_join
    \/ context_ready
    \/ context_failed
    \/ info_reply
    \/ \E fault \in EnumerateFaults, n \in Endpoints : enumerateInputDevices(fault, n)
    \/ enumerate_iterate
    \/ enumerate_returns

EnumerateSpec == Init /\ [][EnumerateNext]_vars

\* C15: a call of enumerateInputDevices, in whatever state the session is,
\* can always take its next step; it changes no field of the object, no
\* backend object of the session and emits nothing; it returns normally, with
\* an empty list when there is no capture endpoint and when the server
\* cannot be reached, and with the sources when they were listed.
C15_EnumerateReturnsList ==
    /\ [](ctl.op = "enumerateInputDevices"
          => ENABLED (enumerate_iterate \/ enumerate_returns))
    /\ [][/\ (ctl' # ctl /\ "enumerateInputDevices" \in {ctl.op, ctl'.op})
             => /\ UNCHANGED objectVars
                /\ UNCHANGED backendVars
                /\ UNCHANGED signalVars
          /\ (ctl.op = "enumerateInputDevices" /\ ctl' = Idle)
             => /\ ret'.op = "enumerateInputDevices"
                /\ ret'.ok
                /\ ret'.error = ""
                /\ ctl.value = 0 => ret'.list = <<>>
                /\ ctl.pc \notin {"ready", "listed"} => ret'.list = <<>>
                /\ ctl.pc \in {"ready", "listed"} => Len(ret'.list) = ctl.value]_vars

\* an enumeration made while a session was running has returned an empty
\* list
C15_EmptyWhileRunning ==
    /\ ret.op = "enumerateInputDevices"
    /\ ret.list = <<>>
    /\ ctl = Idle
    /\ running_
    /\ sessions > 0


(***************************************************************************)
(* Sustained silence: a session is set up, receives at most one buffer of  *)
(* arbitrary content and from its first all-zero buffer on                 *)
(* nothing but all-zero buffers.  The backend keeps delivering while the   *)
(* stream is ready, and a callback that began runs to its end.             *)
(***************************************************************************)
\* one frame of zeros
Silence(channels) == [i \in 1..channels |-> 0]

\* stream_read_callback with an all-zero buffer on the stream the object
\* holds; no other content follows
silence_read_callback(s, randL, randR) ==
    /\ s \in DOMAIN paStreams
    /\ s = stream_
    /\ buffers' = MaxBuffers
    /\ read_callback(s, Silence(SampleSpec(paStreams[s].dev).channels), randL, randR)

\* audioInputCallback with an all-zero buffer; no other content follows
silence_input_callback(randL, randR) ==
    /\ buffers' = MaxBuffers
    /\ input_callback(Silence(2), randL, randR)

\* the one buffer of arbitrary content that precedes the silence
signal_read_callback(s, data, randL, randR) ==
    /\ buffers = 0
    /\ buffers' = 1
    /\ read_callback(s, data, randL, randR)

signal_input_callback(data, randL, randR) ==
    /\ buffers = 0
    /\ buffers' = 1
    /\ input_callback(data, randL, randR)

\* the one call of start that sets the session up
first_start == sessions = 0 /\ start

silenceDelivered ==
    \/ \E s \in DOMAIN paStreams, rand \in RandValues :
          silence_read_callback(s, rand[1], rand[2])
    \/ \E rand \in RandValues : silence_input_callback(rand[1], rand[2])

SilenceNext ==
    \/ first_start
    \/ context_ready
    \/ info_reply
    \/ \E s \in DOMAIN paStreams : stream_state(s, "ready")
    \/ \E s \in DOMAIN paStreams, data \in Buffers, rand \in RandValues :
          signal_read_callback(s, data, rand[1], rand[2])
    \/ \E data \in Buffers, rand \in RandValues :
          signal_input_callback(data, rand[1], rand[2])
    \/ silenceDelivered
    \/ store_left
    \/ store_right

\* the condition under which silenceDelivered can happen
silenceDeliverable ==
    /\ cb.pc = "idle"
    /\ \/ /\ dispatching
          /\ stream_ \in DOMAIN paStreams
          /\ paStreams[stream_].state = "ready"
       \/ /\ platform = "coreaudio"
          /\ audioQueue_ \in DOMAIN audioQueues
          /\ audioQueues[audioQueue_] = "started"

\* weak fairness of silenceDelivered, of store_left and of store_right; the
\* first is WF_vars(silenceDelivered) with its enabling condition written out
SilenceSpec ==
    /\ Init
    /\ [][SilenceNext]_vars
    /\ ([]<>(~silenceDeliverable) \/ []<><<silenceDelivered>>_vars)
    /\ WF_vars(store_left)
    /\ WF_vars(store_right)

\* only all-zero buffers are delivered from now on, and they are delivered
sustainedSilence ==
    /\ buffers = MaxBuffers
    /\ \/ /\ dispatching
          /\ stream_ \in DOMAIN paStreams
          /\ paStreams[stream_].state = "ready"
       \/ /\ platform = "coreaudio"
          /\ running_
          /\ audioQueue_ \in DOMAIN audioQueues
          /\ audioQueues[audioQueue_] = "started"

\* the buffer durations of the model, in microseconds
Durations == {10000, 20000, 50000}

\* ballistics instance b was advanced towards the level of zero input
gatedStep(b, after, ref) ==
    \E dt \in Durations :
       after \in {process(b, FSub(dbfsOf(0), ref), dt, 0).b,
                  process(reset(FSub(dbfsOf(0), ref)), FSub(dbfsOf(0), ref), dt, 0).b}

\* a callback that leaves a smoothed RMS below the noise floor has moved that
\* channel's ballistics towards the level of zero input itself
gatedBelowNoiseFloor ==
    [][(cb.pc = "idle" /\ cb'.pc = "storeL")
          => /\ FLt(std_sqrt(filter'.rmsL_smooth), noiseFloor)
                => gatedStep(ballisticsL_, ballisticsL_', cb'.ref)
             /\ FLt(std_sqrt(filter'.rmsR_smooth), noiseFloor)
                => gatedStep(ballisticsR_, ballisticsR_', cb'.ref)]_vars

\* no NaN is held in the filter state or in the ballistics
finiteHistory ==
    /\ ~IsNaN(filter.prevL) /\ ~IsNaN(filter.prevR)
    /\ ~IsNaN(filter.rmsL_smooth) /\ ~IsNaN(filter.rmsR_smooth)
    /\ ~IsNaN(ballisticsL_.value_) /\ ~IsNaN(ballisticsL_.peak_)
    /\ ~IsNaN(ballisticsR_.value_) /\ ~IsNaN(ballisticsR_.peak_)

\* sustained silence after buffers of finite samples brings both published
\* levels to kMinVu for good (holds under SilenceSpec)
FiniteSilenceReachesFloor ==
    (sustainedSilence /\ finiteHistory)
       ~> [](leftVuDb = kMinVu /\ rightVuDb = kMinVu)

\* C16: under sustained silence after any earlier buffers both published
\* levels eventually are exactly kMinVu and stay there; and once a smoothed
\* RMS is below the noise floor the target is the level of zero input.
C16_SilenceReachesFloor ==
    /\ sustainedSilence ~> [](leftVuDb = kMinVu /\ rightVuDb = kMinVu)
    /\ gatedBelowNoiseFloor


\* the state of the PulseAudio session the object holds
sessionState ==
    IF context_ \notin DOMAIN paContexts THEN "Idle"
    ELSE IF paContexts[context_] = "connecting" THEN "Connecting"
    ELSE IF paContexts[context_] # "ready" THEN "Failed"
    ELSE IF paQuery.kind # "none" THEN "NegotiatingDevice"
    ELSE IF liveStreams(context_) # {} THEN "Streaming"
    ELSE "Failed"

\* the moves of a session: one state forward, to Failed, or back to Idle when
\* stop() or a failing start() releases it
sessionMoves ==
    {<<"Idle", "Connecting">>, <<"Connecting", "NegotiatingDevice">>,
     <<"NegotiatingDevice", "Streaming">>}
    \cup {<<st, "Failed">> : st \in {"Connecting", "NegotiatingDevice", "Streaming"}}
    \cup {<<st, "Idle">> : st \in {"Connecting", "NegotiatingDevice", "Streaming",
                                   "Failed"}}

\* C17: a PulseAudio session moves only along Idle, Connecting,
\* NegotiatingDevice, Streaming and then Failed or back to Idle; the device
\* query is issued only in the step that makes the session's context ready; a
\* stream is created only by the reply to that query, on the ready context of
\* the session; and a callback computes levels only for a ready stream of the
\* session the object holds (for the started queue on CoreAudio).
C17_SessionOrder ==
    [][/\ platform = "pulse"
          => \/ sessionState' = sessionState
             \/ <<sessionState, sessionState'>> \in sessionMoves
       /\ (paQuery' # paQuery /\ paQuery'.kind # "none")
          => /\ paQuery.kind = "none"
             /\ context_ \in DOMAIN paContexts
             /\ paContexts[context_] = "connecting"
             /\ paContexts'[context_] = "ready"
       /\ DOMAIN paStreams' \ DOMAIN paStreams # {}
          => /\ paQuery.kind # "none"
             /\ paQuery'.kind = "none"
             /\ paContexts[context_] = "ready"
             /\ \A s \in DOMAIN paStreams' \ DOMAIN paStreams :
                   paStreams'[s].ctx = context_
       /\ (cb.pc = "idle" /\ cb'.pc = "storeL")
          => IF platform = "pulse"
             THEN /\ cb'.owner \in DOMAIN paStreams
                  /\ paStreams[cb'.owner].ctx = context_
                  /\ paStreams[cb'.owner].state = "ready"
                  /\ sessionState = "Streaming"
             ELSE /\ cb'.owner = audioQueue_
                  /\ audioQueue_ \in DOMAIN audioQueues
                  /\ audioQueues[audioQueue_] = "started"]_vars

\* a session that went through every state: its stream delivered a buffer
\* whose levels were published, and then the connection was lost
C17_StreamedThenFailed ==
    /\ platform = "pulse"
    /\ sessionState = "Failed"
    /\ buffers > 0
    /\ lastStored.L # kMinVu
    /\ \E s \in DOMAIN paStreams : paStreams[s].ctx = context_


\* the streams created for the session the object holds and not yet released
sessionStreams == {s \in DOMAIN paStreams : paStreams[s].ctx = context_}

\* C18: the session the object holds has at most one capture stream, and it
\* is the stream_ that stop() disconnects and releases.
C18_OneStreamPerSession ==
    /\ Cardinality(sessionStreams) <= 1
    /\ sessionStreams \subseteq {stream_}


\* a buffer callback is in progress on the backend thread or can begin now
callbackMayRun ==
    \/ cb.pc # "idle"
    \/ /\ platform = "pulse"
       /\ thread_ = "running"
       /\ \E s \in DOMAIN paStreams : paStreams[s].state = "ready"
    \/ /\ platform = "coreaudio"
       /\ audioQueue_ \in DOMAIN audioQueues
       /\ audioQueues[audioQueue_] = "started"

\* C19: what the buffer callback reads or keeps (the options, the filter
\* state, both ballistics instances) is not written by a call of the
\* controller thread while a callback is in progress or can begin.
C19_NoWriteUnderCallback ==
    [][(/\ ctl' # ctl
        /\ \/ options_' # options_
           \/ filter' # filter
           \/ ballisticsL_' # ballisticsL_
           \/ ballisticsR_' # ballisticsR_)
       => ~callbackMayRun]_vars


(***************************************************************************)
(* A second AudioCapture instance in the same process, with a session of   *)
(* its own on a two-channel device.  Its fields, levels and backend        *)
(* objects are its own and are not part of the state; of its buffer        *)
(* callback the model keeps what it does to storage this instance uses.    *)
(***************************************************************************)
\* the filter state this instance finds after the other instance's callback
\* handled data: prevL, prevR, rmsL_smooth, rmsR_smooth and meterAwake are
\* static locals of stream_read_callback, members in processAudioBuffer
filterAfterOther(f, data) ==
    IF platform = "coreaudio" \/ Len(data) \div 2 = 0 THEN f
    ELSE levelExtractor(f, VUBallistics(kMinVu), VUBallistics(kMinVu), options_,
                        data, 2, Len(data) \div 2, 100, 0, 0).f

\* the buffer callback of the other instance, on the other instance's thread
other_read_callback(data) ==
    /\ buffers < MaxBuffers
    /\ buffers' = buffers + 1
    /\ filter' = filterAfterOther(filter, data)
    /\ UNCHANGED <<platform, options_, currentDeviceUID_, leftVuDb_, rightVuDb_,
                   running_, thread_, mainloop_, context_, stream_, audioQueue_,
                   buffers_, ballisticsL_, ballisticsR_, cb, ctl, ret, nextId,
                   sessions, lastStored>>
    /\ UNCHANGED backendVars
    /\ UNCHANGED signalVars

TwoInstancesNext ==
    \/ first_start
    \/ context_ready
    \/ info_reply
    \/ \E s \in DOMAIN paStreams : stream_state(s, "ready")
    \/ \E s \in DOMAIN paStreams, data \in Buffers, rand \in RandValues :
          stream_read_callback(s, data, rand[1], rand[2])
    \/ \E data \in Buffers, rand \in RandValues :
          audioInputCallback(data, rand[1], rand[2])
    \/ store_left
    \/ store_right
    \/ \E data \in Buffers : other_read_callback(data)

TwoInstancesSpec == Init /\ [][TwoInstancesNext]_vars

\* C20: a buffer callback of another instance leaves alone what this
\* instance's levels are computed from: the filter state, both ballistics
\* instances and the options.
C20_FilterStatePerInstance ==
    [][(\E data \in Buffers : other_read_callback(data))
       => UNCHANGED <<filter, ballisticsL_, ballisticsR_, options_>>]_vars


\* C21: the reset of switchDevice leaves the measurement state as a new
\* object has it (previous samples and smoothed powers 0, meter asleep, both
\* ballistics at kMinVu), and apart from that reset the filter state changes
\* only when a callback of this object handles a buffer.
C21_SwitchResetsMeasurement ==
    [][/\ (ctl.op = "switchDevice" /\ ctl.pc = "reset" /\ ctl' # ctl)
          => /\ filter' = FreshFilter
             /\ ballisticsL_' = VUBallistics(kMinVu)
             /\ ballisticsR_' = VUBallistics(kMinVu)
       /\ filter' # filter
          => \/ cb.pc = "idle" /\ cb'.pc = "storeL"
             \/ ctl.op = "switchDevice" /\ ctl.pc = "reset" /\ ctl' # ctl]_vars


\* the smoothed RMS after the noise gate, from the smoothed power sm
gatedRms(sm) ==
    IF FLt(std_sqrt(sm), noiseFloor) THEN 0 ELSE std_sqrt(sm)

\* the target level that belongs to the smoothed power sm and reference ref
targetOf(sm, ref) == FSub(dbfsOf(gatedRms(sm)), ref)

\* the levels a callback may publish for ballistics output at target t
withinJitter(t) == {std_clamp(FAdd(t, j), kMinVu, kMaxVu) : j \in {-1, 0}}

\* C22: a callback that finds the meter asleep and a gated smoothed RMS above
\* the activity threshold on either channel wakes the meter and leaves both
\* ballistics instances at their targets, and publishes the clamped targets
\* within the jitter; every other callback leaves the wake flag alone and
\* advances both instances from where they were.
C22_WakeResetsBoth ==
    [][(cb.pc = "idle" /\ cb'.pc = "storeL")
       => LET tL == targetOf(filter'.rmsL_smooth, cb'.ref)
              tR == targetOf(filter'.rmsR_smooth, cb'.ref)
          IN IF /\ ~filter.meterAwake
                /\ \/ FGt(gatedRms(filter'.rmsL_smooth), activityThreshold)
                   \/ FGt(gatedRms(filter'.rmsR_smooth), activityThreshold)
             THEN /\ filter'.meterAwake
                  /\ ballisticsL_' = [value_ |-> tL, peak_ |-> tL]
                  /\ ballisticsR_' = [value_ |-> tR, peak_ |-> tR]
                  /\ cb'.vuL \in withinJitter(tL)
                  /\ cb'.vuR \in withinJitter(tR)
             ELSE /\ filter'.meterAwake = filter.meterAwake
                  /\ \E dt \in Durations :
                        /\ ballisticsL_' = process(ballisticsL_, tL, dt, 0).b
                        /\ ballisticsR_' = process(ballisticsR_, tR, dt, 0).b]_vars

\* the meter woke on a buffer whose right channel was silent: the right
\* ballistics were reset to the right target, far below the floor
C22_WokenWithSilentChannel ==
    /\ filter.meterAwake
    /\ cb.pc = "storeL"
    /\ ballisticsR_.value_ < kMinVu
    /\ ballisticsR_.value_ = ballisticsR_.peak_
    /\ ballisticsL_.value_ > kMinVu
    /\ cb.vuL > kMinVu
    /\ cb.vuR = kMinVu


(***************************************************************************)
(* Buffers without data.  Besides the empty buffer <<>> of Buffers, the    *)
(* record buffer of a PulseAudio stream can hold a hole: pa_stream_peek    *)
(* then sets the data pointer to NULL and the length to the length of the  *)
(* hole, and the read index stays at the hole until pa_stream_drop is      *)
(* called.  stream_read_callback returns on a NULL pointer without calling *)
(* pa_stream_drop.                                                         *)
(***************************************************************************)
\* stream_read_callback on stream s when a hole arrived
hole_read_callback(s) ==
    /\ dispatching
    /\ s \in DOMAIN paStreams
    /\ paStreams[s].state = "ready"
    /\ ~paStreams[s].hole
    /\ buffers < MaxBuffers
    /\ buffers' = buffers + 1
    /\ paStreams' = [paStreams EXCEPT ![s].hole = TRUE]
    /\ UNCHANGED <<platform, objectVars, paMainloops, paQuit, paContexts,
                   paQuery, audioQueues, cb, errorOccurred, deviceChanged, ctl,
                   ret, nextId, sessions, lastStored>>

NoDataNext ==
    \/ first_start
    \/ context_ready
    \/ info_reply
    \/ \E s \in DOMAIN paStreams : stream_state(s, "ready")
    \/ \E s \in DOMAIN paStreams, data \in Buffers, rand \in RandValues :
          stream_read_callback(s, data, rand[1], rand[2])
    \/ \E data \in Buffers, rand \in RandValues :
          audioInputCallback(data, rand[1], rand[2])
    \/ \E s \in DOMAIN paStreams : hole_read_callback(s)
    \/ store_left
    \/ store_right

NoDataSpec == Init /\ [][NoDataNext]_vars

\* a buffer with data that arrives on stream s now is handed to the level
\* computation
processesData(s) == ~peekFindsNothing(paStreams[s], <<0, 0>>)

\* C23: a callback that begins no level computation (no data, no frame, no
\* channel) leaves the published levels, both ballistics instances and the
\* filter state as they were, and afterwards every ready stream of the
\* session still has its buffers processed.
C23_NoDataIsNoOp ==
    /\ [][(buffers' # buffers /\ cb' = cb)
          => UNCHANGED <<leftVuDb_, rightVuDb_, ballisticsL_, ballisticsR_,
                         filter, running_, errorOccurred>>]_vars
    /\ [](\A s \in DOMAIN paStreams :
             (paStreams[s].ctx = context_ /\ paStreams[s].state = "ready")
                => processesData(s))


(***************************************************************************)
(* A mono session after a stereo one: the object is started, receives      *)
(* buffers, and is switched to the one-channel sink "B".                   *)
(***************************************************************************)
MonoNext ==
    \/ first_start
    \/ context_ready
    \/ info_reply
    \/ \E s \in DOMAIN paStreams : stream_state(s, "ready")
    \/ \E s \in DOMAIN paStreams, data \in Buffers, rand \in RandValues :
          stream_read_callback(s, data, rand[1], rand[2])
    \/ \E data \in Buffers, rand \in RandValues :
          audioInputCallback(data, rand[1], rand[2])
    \/ store_left
    \/ store_right
    \/ switchDevice("B")
    \/ switchDevice_join
    \/ switchDevice_reset
    \/ switchDevice_start

MonoSpec == Init /\ [][MonoNext]_vars

\* the callback that begins computes for a stream of one channel
monoCallback ==
    /\ cb.pc = "idle"
    /\ cb'.pc = "storeL"
    /\ platform = "pulse"
    /\ SampleSpec(paStreams[cb'.owner].dev).channels = 1

\* C24: for every buffer of a one-channel stream the left and the right
\* target are equal, and the levels to publish differ by the jitter at most.
C24_MonoIsDualMono ==
    [][monoCallback
       => /\ targetOf(filter'.rmsL_smooth, cb'.ref)
             = targetOf(filter'.rmsR_smooth, cb'.ref)
          /\ cb'.vuL = cb'.vuR
             \/ (/\ ~IsNaN(cb'.vuL) /\ ~IsNaN(cb'.vuR)
                 /\ cb'.vuL - cb'.vuR \in {-1, 0, 1})]_vars


(***************************************************************************)
(* VUBallistics::process on its own: the left instance is reset to any of  *)
(* ResetLevels and process is called up to MaxCalls times with one target  *)
(* (ctl.value) and any of Durations as dt.  cb.vuL holds the value the     *)
(* last call returned, unclamped; buffers counts the calls.                *)
(***************************************************************************)
MaxCalls == 6

\* levels an instance is reset to, and targets, in 1/1000 dB
ResetLevels == {kMinVu, -5000, kMaxVu}

Targets == {-226000, kMinVu, -5000, 0, 17000}

\* the caller of process with target targetDb
Processing(targetDb) ==
    [op |-> "process", pc |-> "idle", uid |-> "", value |-> targetDb,
     before |-> NoCall]

BallisticsInit ==
    /\ platform \in {"pulse", "coreaudio"}
    /\ options_ \in CommandLines
    /\ currentDeviceUID_ = options_.deviceName
    /\ leftVuDb_ = kMinVu
    /\ rightVuDb_ = kMinVu
    /\ running_ = FALSE
    /\ thread_ = "none"
    /\ mainloop_ = nullptr
    /\ context_ = nullptr
    /\ stream_ = nullptr
    /\ audioQueue_ = nullptr
    /\ buffers_ = [i \in 1..kNumBuffers |-> nullptr]
    /\ \E level \in ResetLevels : ballisticsL_ = reset(level)
    /\ ballisticsR_ = VUBallistics(kMinVu)
    /\ filter = FreshFilter
    /\ paMainloops = {}
    /\ paQuit = FALSE
    /\ paContexts = EmptyMap
    /\ paStreams = EmptyMap
    /\ paQuery = NoQuery
    /\ audioQueues = EmptyMap
    /\ cb = CbIdle
    /\ errorOccurred = <<>>
    /\ deviceChanged = <<>>
    /\ \E targetDb \in Targets : ctl = Processing(targetDb)
    /\ ret = Returned("none", TRUE, "", "", NoCall)
    /\ nextId = 1
    /\ sessions = 0
    /\ buffers = 0
    /\ lastStored = [L |-> kMinVu, R |-> kMinVu]

\* ballisticsL_.process(targetDb, dt) with rand() returning r
process_call(dt, r) ==
    /\ ctl.op = "process"
    /\ buffers < MaxCalls
    /\ buffers' = buffers + 1
    /\ LET p == process(ballisticsL_, ctl.value, dt, r)
       IN /\ ballisticsL_' = p.b
          /\ cb' = [cb EXCEPT !.vuL = p.out]
    /\ UNCHANGED <<platform, options_, currentDeviceUID_, leftVuDb_, rightVuDb_,
                   running_, thread_, mainloop_, context_, stream_, audioQueue_,
                   buffers_, ballisticsR_, filter, ctl, ret, nextId, sessions,
                   lastStored>>
    /\ UNCHANGED backendVars
    /\ UNCHANGED signalVars

BallisticsNext == \E dt \in Durations, r \in {0, 39} : process_call(dt, r)

BallisticsSpec == BallisticsInit /\ [][BallisticsNext]_vars

\* x lies between a and b, ends included
between(x, a, b) == (a <= x /\ x <= b) \/ (b <= x /\ x <= a)

\* how far x lies beyond the target when coming from the side of from
beyond(x, targetDb, from) ==
    IF from <= targetDb THEN x - targetDb ELSE targetDb - x

\* C25: a call of process with the constant target moves value_ to a value
\* between its old value and the target; the move is the one-pole step with
\* the attack time constant exactly when the target is above value_ and with
\* the release time constant otherwise; and the value returned, without its
\* jitter, lies beyond the target by no more than overshootMix times the
\* step.
C25_MonotoneTowardTarget ==
    [][buffers' # buffers
       => LET v     == ballisticsL_.value_
              after == ballisticsL_'.value_
              step  == IF after >= v THEN after - v ELSE v - after
          IN /\ between(after, v, ctl.value)
             /\ \E dt \in Durations :
                   after = Mix(ExpNeg(dt, IF ctl.value > v THEN attackTau
                                          ELSE releaseTau),
                               v, ctl.value)
             /\ \E j \in {-1, 0} :
                   beyond(cb'.vuL - j, ctl.value, v) <= (overshootMix * step) \div 1000]_vars

\* after MaxCalls calls the needle has risen from the floor towards a target
\* above it, and the value returned runs ahead of the needle
C25_RisenTowardTarget ==
    /\ ctl.op = "process"
    /\ buffers = MaxCalls
    /\ ctl.value = 0
    /\ ballisticsL_.value_ > kMinVu
    /\ ballisticsL_.value_ < 0
    /\ ballisticsL_.peak_ > ballisticsL_.value_
    /\ cb.vuL > ballisticsL_.value_


\* C26: start() on a running object returns true with no message and leaves
\* every field of the object and every backend object as it was: no new
\* mainloop, context, thread, queue or stream, nothing emitted.
C26_StartWhileRunning ==
    [][(start /\ running_)
       => /\ ret'.op = "start"
          /\ ret'.ok
          /\ ret'.error = ""
          /\ UNCHANGED objectVars
          /\ UNCHANGED backendVars
          /\ UNCHANGED signalVars
          /\ UNCHANGED <<nextId, sessions>>]_vars

\* start() was called on a running session whose stream exists, and returned
C26_StartedWhileStreaming ==
    /\ ret.op = "start"
    /\ ret.ok
    /\ ret.before.running
    /\ ctl = Idle
    /\ running_
    /\ stream_ \in DOMAIN paStreams
    /\ paStreams[stream_].state = "ready"


\* std::thread::joinable: a thread was launched and not yet joined
joinable == thread_ # "none"

\* C27: whenever no controller call is in progress, on PulseAudio running_
\* is true exactly when mainloop_ and context_ are live objects and thread_
\* is joinable, and when running_ is false mainloop_, context_ and stream_
\* are null and there is no thread; on CoreAudio running_ is true exactly
\* when audioQueue_ is a live queue.
C27_RunningMatchesHandles ==
    ctl = Idle
    => /\ platform = "pulse"
          => /\ running_ <=> (/\ mainloop_ \in paMainloops
                              /\ context_ \in DOMAIN paContexts
                              /\ joinable)
             /\ ~running_ => (/\ mainloop_ = nullptr
                              /\ context_ = nullptr
                              /\ stream_ = nullptr
                              /\ ~joinable)
       /\ platform = "coreaudio"
          => /\ running_ <=> audioQueue_ \in DOMAIN audioQueues
             /\ ~running_ => audioQueue_ = nullptr

\* a switchDevice whose start() failed has returned after a session that
\* streamed: the object is not running and holds nothing
C27_NothingHeldAfterFailedSwitch ==
    /\ ctl = Idle
    /\ ret.op = "switchDevice"
    /\ ~ret.ok
    /\ ret.before.running
    /\ ~running_
    /\ mainloop_ = nullptr
    /\ sessions = MaxSessions


\* stop() has returned, or the object never ran, and no call is in progress
stoppedIdle == ctl = Idle /\ ~running_

\* C28: from the return of stop() until the next start() or switchDevice(),
\* no buffer callback begins or continues and both published levels keep
\* their values; the steps of stop() itself leave both levels alone.
C28_LevelsKeptWhileStopped ==
    [][/\ (stoppedIdle /\ ~running_' /\ ctl'.op # "switchDevice")
          => /\ cb.pc = "idle"
             /\ cb' = cb
             /\ buffers' = buffers
             /\ leftVuDb_' = leftVuDb_
             /\ rightVuDb_' = rightVuDb_
       /\ (ctl' # ctl /\ "stop" \in {ctl.op, ctl'.op})
          => /\ leftVuDb_' = leftVuDb_
             /\ rightVuDb_' = rightVuDb_]_vars

\* stop() has returned on an object that had published levels above the
\* bottom of the scale, and the getters still return them
C28_StoppedWithLevels ==
    /\ stoppedIdle
    /\ ret.op = "stop"
    /\ ret.before.running
    /\ leftVuDb_ # kMinVu
    /\ rightVuDb_ # kMinVu
    /\ leftVuDb_ = lastStored.L
    /\ rightVuDb_ = lastStored.R


\* a failure was reported after start() had returned success: the object
\* still counts as running and its PulseAudio session has failed
asynchronousFailure ==
    /\ platform = "pulse"
    /\ ctl = Idle
    /\ running_
    /\ sessionState = "Failed"
    /\ errorOccurred # <<>>

\* C29: a start() called after an asynchronous failure, with no stop() in
\* between, opens a new connection to the audio server: the object holds a
\* new context that is connecting.
C29_StartRetriesAfterFailure ==
    [][(start /\ asynchronousFailure)
       => /\ context_' # context_
          /\ context_' \in DOMAIN paContexts'
          /\ paContexts'[context_'] = "connecting"]_vars


\* C30: the value referenceDbfs() returns is the reference the level
\* extractor subtracts: every callback that computes levels while no
\* setReferenceDbfs call is in progress subtracts referenceDbfs, also on an
\* object on which no override was ever set.
C30_GetterIsReferenceInEffect ==
    [][(ctl = Idle /\ cb.pc = "idle" /\ cb'.pc = "storeL")
       => cb'.ref = referenceDbfs]_vars

=============================================================================
